---- MODULE Spec2Model ----
(***************************************************************************)
(* A model of src/vmod.rs of varnish-lsp: the VMOD schema parser           *)
(* (parse_vmod_json_func, parse_vmod_json) and the module image reader     *)
(* (read_vmod_lib).                                                        *)
(*                                                                         *)
(* Rust indices are zero-based, TLA+ sequences are one-based: v.get(i) of  *)
(* the source is v[i + 1] here, and the slice v[k..] is                    *)
(* SubSeq(v, k + 1, Len(v)).                                               *)
(***************************************************************************)
EXTENDS Integers, Sequences, FiniteSets, TLC

VARIABLES
    json_parsed,   \* parse_vmod_json: the rows serde_json produced (line 137)
    row_i,         \* parse_vmod_json: number of rows the for loop has consumed
    vmod_obj,      \* parse_vmod_json: vmod_obj.properties (line 147)
    result,        \* parse_vmod_json: how the call ended, "running" until then
    vmod_name,     \* read_vmod_lib: the module name argument
    elf,           \* read_vmod_lib: what Elf::parse gave (dynsyms, section headers)
    file,          \* read_vmod_lib: the bytes of the file
    lib_pc,        \* read_vmod_lib: "start", "located" (offset computed), "done"
    offset,        \* read_vmod_lib: the local `offset` of line 280
    lib_result     \* read_vmod_lib: how the call ended, "running" until then

vars == <<json_parsed, row_i, vmod_obj, result,
          vmod_name, elf, file, lib_pc, offset, lib_result>>

schema_vars == <<json_parsed, row_i, vmod_obj, result>>
lib_vars == <<vmod_name, elf, file, lib_pc, offset, lib_result>>

(***************************************************************************)
(* serde_json::Value, tagged so that values of different kinds compare.    *)
(***************************************************************************)
Null == [t |-> "null", v |-> 0]
Num(n) == [t |-> "num", v |-> n]
Str(s) == [t |-> "str", v |-> s]
Arr(a) == [t |-> "arr", v |-> a]

\* Option<T>: None is the empty sequence, Some(x) the one-element sequence.
None == <<>>
Some(x) == <<x>>
IsSome(o) == Len(o) = 1
IsNone(o) == Len(o) = 0
Unwrap(o) == o[1]

\* Vec::get / slice::get
Get(a, i) == IF i < Len(a) THEN Some(a[i + 1]) ELSE None
\* Value::as_str
AsStr(val) == IF val.t = "str" THEN Some(val.v) ELSE None
\* Value::as_array
AsArray(val) == IF val.t = "arr" THEN Some(val.v) ELSE None

(***************************************************************************)
(* crate::varnish_builtins::{Type, Func, Obj} as the source builds them.   *)
(***************************************************************************)
TypeBackend == [type |-> "Backend"]
TypeString == [type |-> "String"]
TypeNumber == [type |-> "Number"]
TypeBool == [type |-> "Bool"]

TypeFunc(name, signature, ret_type, return) ==
    [type |-> "Func", name |-> name, signature |-> signature,
     ret_type |-> ret_type, definition |-> None, return |-> return]

TypeObj(name, properties) ==
    [type |-> "Obj", name |-> name, read_only |-> TRUE,
     definition |-> None, properties |-> properties]

\* BTreeMap::new
EmptyMap == <<>>
\* variant: the value already under the key is kept
MapInsertKeepFirst(m, k, val) == m @@ (k :> val)
\* BTreeMap::insert: the new value replaces the one under the same key
MapInsert(m, k, val) == (k :> val) @@ m

(***************************************************************************)
(* How a call ends: Ok(value), Err(message), or a panic.                   *)
(***************************************************************************)
NoValue == [type |-> "none"]
Running == [kind |-> "running", msg |-> "", value |-> NoValue]
Ok(val) == [kind |-> "ok", msg |-> "", value |-> val]
Err(m) == [kind |-> "err", msg |-> m, value |-> NoValue]
Panic(m) == [kind |-> "panic", msg |-> m, value |-> NoValue]

(***************************************************************************)
(* parse_vmod_json_func (lines 58-134)                                     *)
(***************************************************************************)
\* index of the first parameter entry in the signature array (line 90)
ParamStart == 3

\* iter().map(..).filter(|r| r.is_ok()).map(|r| r.unwrap()).collect():
\* the Some entries of a sequence of options, in order
RECURSIVE FilterOk(_)
FilterOk(opts) ==
    IF Len(opts) = 0 THEN <<>>
    ELSE IF IsSome(Head(opts)) THEN <<Unwrap(Head(opts))>> \o FilterOk(Tail(opts))
    ELSE FilterOk(Tail(opts))

\* Vec<String>::join
RECURSIVE Join(_, _)
Join(strs, sep) ==
    IF Len(strs) = 0 THEN ""
    ELSE IF Len(strs) = 1 THEN strs[1]
    ELSE strs[1] \o sep \o Join(Tail(strs), sep)

\* lines 72-86, after the two `?` of lines 74 and 76: the text candidates
RetTypes(cands) == FilterOk([i \in 1..Len(cands) |-> AsStr(cands[i])])

\* variant: the slice starts one element early, at the second reserved one
ParamSliceFromReserved(signature_arr) ==
    SubSeq(signature_arr, ParamStart, Len(signature_arr))
\* signature_arr[3..] (line 90); the caller checks Len >= ParamStart
ParamSlice(signature_arr) ==
    SubSeq(signature_arr, ParamStart + 1, Len(signature_arr))

\* the closure of lines 92-109: Ok(text) is Some, any Err is None
ArgText(arg) ==
    LET arg_arr == AsArray(arg) IN
    IF IsNone(arg_arr) THEN None
    ELSE LET t0 == Get(Unwrap(arg_arr), 0)
             t1 == Get(Unwrap(arg_arr), 1)
         IN  IF IsNone(t0) THEN None
             ELSE IF IsNone(AsStr(Unwrap(t0))) THEN None
             ELSE IF IsNone(t1) THEN None
             ELSE IF IsNone(AsStr(Unwrap(t1))) THEN None
             ELSE Some(Unwrap(AsStr(Unwrap(t0))) \o " " \o Unwrap(AsStr(Unwrap(t1))))

\* lines 88-114, given the parameter slice
SignatureText(params) ==
    "(" \o Join(FilterOk([i \in 1..Len(params) |-> ArgText(params[i])]), ", ") \o ")"

\* variant: the last candidate instead of the first
LastRetType(ret_types) ==
    IF Len(ret_types) = 0 THEN None ELSE Some(ret_types[Len(ret_types)])
\* ret_types.get(0) (line 116)
FirstRetType(ret_types) == Get(ret_types, 0)

\* the match of lines 117-125
ReturnOf(ret_type) ==
    CASE ret_type = "BACKEND" -> Some(TypeBackend)
      [] ret_type = "STRING" -> Some(TypeString)
      [] ret_type = "REAL" -> Some(TypeNumber)
      [] ret_type = "INT" -> Some(TypeNumber)
      [] ret_type = "BOOL" -> Some(TypeBool)
      [] ret_type = "VOID" -> None
      [] OTHER -> None

ParseVmodJsonFunc(serde_value_arr) ==
    LET name == Get(serde_value_arr, 1)
        sig == Get(serde_value_arr, 2)
    IN
    IF IsNone(name) THEN Err("Missing VMOD func name")
    ELSE IF IsNone(AsStr(Unwrap(name))) THEN Err("VMOD func name is not string")
    ELSE IF IsNone(sig) THEN Err("could not find method signature")
    ELSE IF IsNone(AsArray(Unwrap(sig))) THEN Err("method signature not array")
    ELSE
    LET signature_arr == Unwrap(AsArray(Unwrap(sig)))
        cands == Get(signature_arr, 0)
    IN
    IF IsNone(cands) THEN Err("Missing return type field")
    ELSE IF IsNone(AsArray(Unwrap(cands))) THEN Err("Return type should be array")
    ELSE
    LET ret_types == RetTypes(Unwrap(AsArray(Unwrap(cands)))) IN
    \* signature_arr[3..] panics when the array has fewer than 3 elements
    IF Len(signature_arr) < ParamStart
    THEN Panic("range start index 3 out of range for slice")
    ELSE
    LET signature == SignatureText(ParamSlice(signature_arr))
        ret_type == FirstRetType(ret_types)
    IN
    IF IsNone(ret_type) THEN Err("Missing return type")
    ELSE Ok(TypeFunc(Unwrap(AsStr(Unwrap(name))), Some(signature),
                     Some(Unwrap(ret_type)), ReturnOf(Unwrap(ret_type))))

(***************************************************************************)
(* parse_vmod_json (lines 136-228), from the parsed rows of line 137 on    *)
(***************************************************************************)
\* index of the first method in a $OBJ row (line 207)
MethodStart == 6

\* which arm of the loop body a row takes (lines 155-162, 223)
RowArm(row) ==
    IF IsNone(Get(row, 0)) THEN "empty"
    ELSE IF IsNone(AsStr(Unwrap(Get(row, 0)))) THEN "nontext"
    ELSE LET row_type == Unwrap(AsStr(Unwrap(Get(row, 0)))) IN
         IF row_type \in {"$VMOD", "$EVENT", "$FUNC", "$OBJ"} THEN row_type
         ELSE "other"

\* the "$FUNC" arm (lines 185-191)
StepFunc(props, row) ==
    LET func == ParseVmodJsonFunc(row) IN
    IF func.kind # "ok" THEN func
    ELSE Ok(MapInsert(props, func.value.name, func.value))

\* variant: the slice starts one element early, at index 5
MethodSliceFromFive(row) == SubSeq(row, MethodStart, Len(row))
\* row[6..] (line 207); the caller checks Len >= MethodStart
MethodSlice(row) == SubSeq(row, MethodStart + 1, Len(row))

\* the for loop of lines 207-211 over the remaining methods
RECURSIVE ParseMethods(_, _)
ParseMethods(methods, props) ==
    IF Len(methods) = 0 THEN Ok(props)
    ELSE LET method_arr == AsArray(Head(methods)) IN
         IF IsNone(method_arr) THEN Err("Method is not array")
         ELSE LET func == ParseVmodJsonFunc(Unwrap(method_arr)) IN
              IF func.kind # "ok" THEN func
              ELSE ParseMethods(Tail(methods),
                                MapInsert(props, func.value.name, func.value))

\* the synthetic Func of lines 213-219
ObjFunc(name, obj) == TypeFunc(name, None, Some(name), Some(obj))

\* the "$OBJ" arm (lines 192-222)
StepObj(props, row) ==
    LET name == Get(row, 1) IN
    IF IsNone(name) THEN Err("Failed to get obj name")
    ELSE IF IsNone(AsStr(Unwrap(name))) THEN Err("Obj name is not string")
    \* row[6..] panics when the row has fewer than 6 elements
    ELSE IF Len(row) < MethodStart
    THEN Panic("range start index 6 out of range for slice")
    ELSE LET n == Unwrap(AsStr(Unwrap(name)))
             methods == ParseMethods(MethodSlice(row), EmptyMap)
         IN  IF methods.kind # "ok" THEN methods
             ELSE Ok(MapInsert(props, n, ObjFunc(n, TypeObj(n, methods.value))))

\* variant: an unknown row type is an error
StepOtherFails(props, row) == Err("unknown row type")
\* the `_ => {}` arm (line 223)
StepOther(props, row) == Ok(props)

\* one iteration of the loop of lines 154-225: Ok(properties) to go on,
\* Err or Panic to leave the function
StepRow(props, row) ==
    CASE RowArm(row) = "empty" -> Err("empty array")
      [] RowArm(row) = "nontext" -> Ok(props)
      [] RowArm(row) = "$VMOD" -> Ok(props)
      [] RowArm(row) = "$EVENT" -> Ok(props)
      [] RowArm(row) = "$FUNC" -> StepFunc(props, row)
      [] RowArm(row) = "$OBJ" -> StepObj(props, row)
      [] OTHER -> StepOther(props, row)

\* the whole loop and the return of line 227, as a function of the rows
RECURSIVE ParseFrom(_, _)
ParseFrom(rows, props) ==
    IF Len(rows) = 0 THEN Ok(TypeObj("", props))
    ELSE LET step == StepRow(props, Head(rows)) IN
         IF step.kind # "ok" THEN step
         ELSE ParseFrom(Tail(rows), step.value)

ParseRows(rows) == ParseFrom(rows, EmptyMap)

(***************************************************************************)
(* read_vmod_lib (lines 259-311)                                           *)
(*                                                                         *)
(* The file is a sequence of bytes; Rust's file[k] is file[k + 1] here.    *)
(* Elf::parse is goblin's: the model takes its result (the dynamic symbol  *)
(* table with each entry's name as dynstrtab.get_at gives it, and the      *)
(* section headers) as an input next to the bytes.                         *)
(***************************************************************************)
\* Every integer read from the image is kept exactly below IntCap; the
\* values from IntCap on are all larger than any buffer and are kept as IntCap.
IntCap == 1048576

Min(a, b) == IF a < b THEN a ELSE b

\* VmodDataCStruct, #[repr(C)] with 8-byte pointers: the offset of each field
OffVrtMajor == 0
OffVrtMinor == 4
OffFileId == 8
OffName == 16
OffFunc == 24
OffFuncLen == 32
OffProto == 40
OffJson == 48
OffAbi == 56
\* size_of::<VmodDataCStruct>()
DescSize == 64
PtrSize == 8
U32Size == 4

\* format!("Vmod_{}_Data", vmod_name) (line 263)
SymbolName(name) == "Vmod_" \o name \o "_Data"

\* the predicate of find (lines 268-273): get_at gave a name and it is equal
SymMatches(sym, symbol_name) ==
    IF IsSome(sym.name) THEN Unwrap(sym.name) = symbol_name ELSE FALSE

\* variant: the last matching entry instead of the first
FindLastSym(dynsyms, symbol_name) ==
    LET hits == {i \in 1..Len(dynsyms) : SymMatches(dynsyms[i], symbol_name)} IN
    IF hits = {} THEN None
    ELSE Some((CHOOSE i \in hits : \A j \in hits : j <= i) - 1)
\* iter().enumerate().find(..) (lines 264-274): the zero-based index of the
\* first matching entry, None when there is none
FindSym(dynsyms, symbol_name) ==
    LET hits == {i \in 1..Len(dynsyms) : SymMatches(dynsyms[i], symbol_name)} IN
    IF hits = {} THEN None
    ELSE Some((CHOOSE i \in hits : \A j \in hits : i <= j) - 1)

\* line 280, in usize; the images modelled keep the sum far below the word size
DescOffset(sec, vmd_sym_idx) == sec.sh_offset + vmd_sym_idx * sec.sh_entsize

\* lines 261-280: Ok(offset), or how the call ends before the record is read
Locate(name, e) ==
    IF ~e.parse_ok THEN Err("Elf::parse failed")
    ELSE LET found == FindSym(e.dynsyms, SymbolName(name)) IN
         IF IsNone(found) THEN Err("Could not find vmod data symbol")
         ELSE LET vmd_sym_idx == Unwrap(found)
                  vmd_sym == e.dynsyms[vmd_sym_idx + 1]
                  sec == Get(e.section_headers, vmd_sym.st_shndx)
              IN  IF IsNone(sec) THEN Panic("Could not find section")
                  ELSE Ok(DescOffset(Unwrap(sec), vmd_sym_idx))

\* a little-endian unsigned integer of n bytes at byte offset at
RECURSIVE ReadLE(_, _, _)
ReadLE(f, at, n) ==
    IF n = 0 THEN 0
    ELSE LET high == ReadLE(f, at + 1, n - 1) IN Min(high * 256 + f[at + 1], IntCap)

\* a field of the record at offset: read from the buffer when it lies in it;
\* a field that reaches past the end of the buffer is an out-of-buffer read
\* and gives the value garbage
Field(f, at, n, garbage) ==
    IF at + n <= Len(f) THEN ReadLE(f, at, n) ELSE garbage

\* `vmd.func_len as usize` of an i32: a negative value becomes a huge one
I32AsUsize(f, at, garbage) ==
    IF at + U32Size <= Len(f)
    THEN IF f[at + U32Size] >= 128 THEN IntCap ELSE ReadLE(f, at, U32Size)
    ELSE garbage

\* to_string_lossy on bytes: an ASCII byte is its character; any other byte of
\* the images modelled is not part of a valid UTF-8 sequence and becomes U+FFFD
Lossy(bytes) == [i \in 1..Len(bytes) |-> IF bytes[i] < 128 THEN bytes[i] ELSE 65533]

\* CStr::from_bytes_until_nul(&file[p..])?.to_string_lossy(): slicing panics
\* when p is beyond the length; with no zero byte from p on it is an error
CStrAt(f, p) ==
    IF p > Len(f) THEN Panic("range start index out of range for slice")
    ELSE LET nuls == {i \in (p + 1)..Len(f) : f[i] = 0} IN
         IF nuls = {} THEN Err("data provided does not contain a nul")
         ELSE LET end == CHOOSE i \in nuls : \A j \in nuls : i <= j
              IN  Ok(Lossy(SubSeq(f, p + 1, end - 1)))

\* serde_json::from_str::<Vec<Vec<Value>>> (line 137) on the texts the modelled
\* images hold, which are made of '[' (91), ']' (93) and 'A' (65) only: such a
\* text is JSON exactly when it is n >= 1 opening brackets followed by n
\* closing ones.  n = 1 is no row, n = 2 one empty row, n >= 3 one row whose
\* single element is an array nested n - 3 deep.
RECURSIVE Nested(_)
Nested(k) == IF k = 0 THEN Arr(<<>>) ELSE Arr(<<Nested(k - 1)>>)

FromStr(text) ==
    LET n == Len(text) \div 2 IN
    IF /\ Len(text) >= 2
       /\ Len(text) = 2 * n
       /\ \A i \in 1..n : text[i] = 91
       /\ \A i \in (n + 1)..(2 * n) : text[i] = 93
    THEN IF n = 1 THEN Ok(<<>>)
         ELSE IF n = 2 THEN Ok(<< <<>> >>)
         ELSE Ok(<< <<Nested(n - 3)>> >>)
    ELSE Err("serde_json syntax error")

\* parse_vmod_json on a text (lines 136-228)
ParseVmodJson(text) ==
    LET json_rows == FromStr(text) IN
    IF json_rows.kind # "ok" THEN json_rows ELSE ParseRows(json_rows.value)

\* lines 282-310 once file[offset..] has been taken: the fields are read
\* through the reinterpreted pointer, the texts in the order the code reads
\* them: json, then name, file_id, func, proto, abi
Decode(f, at, garbage) ==
    LET json == CStrAt(f, Field(f, at + OffJson, PtrSize, garbage)) IN
    IF json.kind # "ok" THEN json
    ELSE
    LET vmod_json_data == ParseVmodJson(json.value) IN
    IF vmod_json_data.kind # "ok" THEN vmod_json_data
    ELSE
    LET name == CStrAt(f, Field(f, at + OffName, PtrSize, garbage))
        file_id == CStrAt(f, Field(f, at + OffFileId, PtrSize, garbage))
        func == CStrAt(f, Field(f, at + OffFunc, PtrSize, garbage))
        proto == CStrAt(f, Field(f, at + OffProto, PtrSize, garbage))
        abi == CStrAt(f, Field(f, at + OffAbi, PtrSize, garbage))
    IN
    IF name.kind # "ok" THEN name
    ELSE IF file_id.kind # "ok" THEN file_id
    ELSE IF func.kind # "ok" THEN func
    ELSE IF proto.kind # "ok" THEN proto
    ELSE IF abi.kind # "ok" THEN abi
    ELSE Ok([vrt_major |-> Field(f, at + OffVrtMajor, U32Size, garbage),
             vrt_minor |-> Field(f, at + OffVrtMinor, U32Size, garbage),
             file_id |-> file_id.value,
             name |-> name.value,
             func |-> func.value,
             func_len |-> I32AsUsize(f, at + OffFuncLen, garbage),
             proto |-> proto.value,
             json |-> json.value,
             abi |-> abi.value,
             scope |-> vmod_json_data.value])

\* what an out-of-buffer read can give for a field
GarbageValues == {0, IntCap}

\* the process killed by the out-of-buffer read
Crash == [kind |-> "crash", msg |-> "out-of-buffer read", value |-> NoValue]

\* lines 282-310: every way the call can end once offset is known.
\* file[offset..] panics when offset is beyond the length; a record that does
\* not fit in the rest of the buffer is read out of the buffer, which is
\* undefined: the process is killed, or the read gives some value.  A record
\* that is not aligned is read as the x86-64 build reads it, byte for byte.
DecodeOutcomes(f, at) ==
    IF at > Len(f) THEN {Panic("range start index out of range for slice")}
    ELSE LET fits == at + DescSize <= Len(f) IN
         {Decode(f, at, g) : g \in IF fits THEN {0} ELSE GarbageValues}
         \cup (IF fits THEN {} ELSE {Crash})

\* read_vmod_lib as a whole: the set of ways the call can end
ReadVmodLib(name, e, f) ==
    LET loc == Locate(name, e) IN
    IF loc.kind # "ok" THEN {loc} ELSE DecodeOutcomes(f, loc.value)

(***************************************************************************)
(* The schemas the model parses                                            *)
(***************************************************************************)
MaxRows == 3
MaxParams == 2
MaxMethods == 2

\* all sequences over S of length at most n
RECURSIVE SeqsUpTo(_, _)
SeqsUpTo(S, n) ==
    IF n = 0 THEN {<<>>}
    ELSE LET shorter == SeqsUpTo(S, n - 1) IN
         shorter \cup {Append(q, x) : q \in {r \in shorter : Len(r) = n - 1}, x \in S}

RetNames == {"BACKEND", "STRING", "REAL", "INT", "BOOL", "VOID", "DURATION"}

\* return-candidate lists: one text, several texts, and the malformed ones
GoodCands ==
    {Arr(<<Str(r)>>) : r \in RetNames}
    \cup {Arr(<<Str("INT"), Str("STRING")>>), Arr(<<Str("STRING"), Str("BOOL")>>),
          Arr(<<Str("VOID"), Str("INT")>>)}
BadCands ==
    {Arr(<<>>), Arr(<<Num(1)>>), Arr(<<Num(1), Str("BOOL")>>),
     Arr(<<Str("BOOL"), Num(1)>>), Str("INT"), Null}

\* parameter entries
GoodParams ==
    {Arr(<<Str("STRING"), Str("name")>>), Arr(<<Str("INT"), Str("count")>>),
     Arr(<<Str("INT"), Str("count"), Null>>)}
BadParams ==
    {Num(1), Arr(<<>>), Arr(<<Str("INT")>>), Arr(<<Num(1), Str("a")>>),
     Arr(<<Str("INT"), Num(1)>>)}

\* signature elements 1 and 2
ReservedPairs ==
    {<<Null, Null>>, <<Arr(<<Str("BOOL"), Str("x")>>), Arr(<<Str("REAL"), Str("y")>>)>>}

FullSignatures(cands, params) ==
    {Arr(<<c>> \o r \o ps) :
        c \in cands, r \in ReservedPairs, ps \in SeqsUpTo(params, MaxParams)}

\* signature arrays with fewer than 3 elements, and a signature that is no array
ShortSignatures ==
    {Arr(<<>>), Arr(<<Arr(<<Str("INT")>>)>>), Arr(<<Arr(<<Str("INT")>>), Null>>),
     Arr(<<Null>>), Arr(<<Arr(<<>>), Null>>), Str("sig")}

Signatures ==
    FullSignatures(GoodCands \cup BadCands, GoodParams \cup BadParams)
    \cup ShortSignatures

FuncRows ==
    {<<Str("$FUNC"), Str("greet"), sg>> : sg \in Signatures}
    \cup {<<Str("$FUNC"), Str("greet"), sg, Null>> : sg \in ShortSignatures}
    \cup {<<Str("$FUNC")>>, <<Str("$FUNC"), Num(1)>>, <<Str("$FUNC"), Str("greet")>>,
          <<Str("$FUNC"), Num(1), Arr(<<Arr(<<Str("INT")>>), Null, Null>>)>>}

\* nested method rows: element 0 is not read, 1 is the name, 2 the signature
SigBool == Arr(<<Arr(<<Str("BOOL")>>), Null, Null>>)
SigInt == Arr(<<Arr(<<Str("INT")>>), Null, Null, Arr(<<Str("INT"), Str("count")>>)>>)
GoodMethods ==
    {Arr(<<Str("$METHOD"), Str("ping"), SigBool>>),
     Arr(<<Null, Str("ping"), SigInt>>),
     Arr(<<Str("$METHOD"), Str("set"), SigInt>>),
     Arr(<<Str("$METHOD"), Str("get"),
           Arr(<<Arr(<<Str("STRING"), Str("INT")>>), Null, Null,
                 Arr(<<Str("STRING"), Str("name")>>),
                 Arr(<<Str("INT"), Str("count")>>)>>)>>)}
BadMethods ==
    {Str("ping"), Arr(<<Str("$METHOD")>>),
     Arr(<<Str("$METHOD"), Str("ping"), Arr(<<Arr(<<Str("BOOL")>>)>>)>>),
     Arr(<<Str("$METHOD"), Str("ping"),
           Arr(<<Arr(<<Str("BOOL")>>), Null, Null, Num(1)>>)>>)}

\* elements 2 to 5 of a $OBJ row
ObjMeta ==
    {<<Null, Null, Null, Null>>,
     <<Arr(<<Str("$METHOD"), Str("meta"), SigBool>>), Str("struct"),
       Arr(<<Str("$INIT"), Str("init"), SigBool>>),
       Arr(<<Str("$FINI"), Str("fini"), SigInt>>)>>}

ObjRows ==
    {<<Str("$OBJ"), Str("backend_handle")>> \o meta \o ms :
        meta \in ObjMeta, ms \in SeqsUpTo(GoodMethods \cup BadMethods, MaxMethods)}
    \cup {SubSeq(<<Str("$OBJ"), Str("backend_handle"), Null, Null, Null, Null>>, 1, k) :
            k \in 1..5}
    \cup {<<Str("$OBJ"), Num(1), Null, Null, Null, Null>>, <<Str("$OBJ"), Num(1)>>}

\* rows the loop ignores, and the row with no element at all
IgnoredRows ==
    {<<Str("$VMOD"), Str("1.0")>>, <<Str("$EVENT"), Str("event")>>,
     <<Str("$FOO"), Str("greet"), Num(1)>>, <<Str("$func"), Str("greet")>>,
     <<Str("$RESTRICT")>>, <<Num(1), Str("$FUNC")>>, <<Null>>, <<Arr(<<>>)>>}

\* the rows of multi-row schemas: names collide across $FUNC and $OBJ rows
SigString == Arr(<<Arr(<<Str("STRING")>>), Null, Null, Arr(<<Str("STRING"), Str("name")>>)>>)
MixRows ==
    {<<Str("$FUNC"), Str("greet"), SigString>>,
     <<Str("$FUNC"), Str("greet"), SigInt>>,
     <<Str("$FUNC"), Str("ping"), SigBool>>,
     <<Str("$OBJ"), Str("greet"), Null, Null, Null, Null,
       Arr(<<Str("$METHOD"), Str("ping"), SigBool>>)>>,
     <<Str("$OBJ"), Str("ping"), Null, Null, Null, Null>>,
     <<Str("$FUNC"), Str("greet"), Arr(<<Arr(<<Str("INT")>>), Null, Null, Num(1)>>)>>,
     <<Str("$FUNC"), Str("greet"), Arr(<<Arr(<<Str("INT")>>), Null>>)>>,
     <<Str("$OBJ"), Str("greet"), Null>>,
     <<Str("$VMOD"), Str("1.0")>>,
     <<Str("$FOO"), Str("greet"), SigInt>>,
     <<Num(1)>>,
     <<>>}

Schemas ==
    {<<row>> : row \in FuncRows \cup ObjRows \cup IgnoredRows}
    \cup SeqsUpTo(MixRows, MaxRows)

(***************************************************************************)
(* The module images the model reads                                       *)
(***************************************************************************)
MaxSyms == 3

\* the bytes of n, little-endian, in width bytes
RECURSIVE EncodeLE(_, _)
EncodeLE(n, width) ==
    IF width = 0 THEN <<>> ELSE <<n % 256>> \o EncodeLE(n \div 256, width - 1)
Zeros(n) == [i \in 1..n |-> 0]

\* a VmodDataCStruct as the compiler lays it out (4 bytes of padding follow
\* func_len)
EncodeDesc(d) ==
    EncodeLE(d.vrt_major, U32Size) \o EncodeLE(d.vrt_minor, U32Size)
    \o EncodeLE(d.file_id, PtrSize) \o EncodeLE(d.name, PtrSize)
    \o EncodeLE(d.func, PtrSize)
    \o EncodeLE(d.func_len, U32Size) \o Zeros(U32Size)
    \o EncodeLE(d.proto, PtrSize) \o EncodeLE(d.json, PtrSize)
    \o EncodeLE(d.abi, PtrSize)

\* An image: DescAt zero bytes, the record, then the texts
\*   TextAt      "[]"    a schema with no row
\*   TextAt + 3  "[[]]"  a schema with one empty row
\*   TextAt + 8  "A"     a text that is not JSON
\*   TextAt + 10 "A"     the last text, with or without its terminator
DescAt == 48
TextAt == DescAt + DescSize
Texts == <<91, 93, 0, 91, 91, 93, 93, 0, 65, 0, 65>>
Image(d, terminated) ==
    Zeros(DescAt) \o EncodeDesc(d) \o Texts \o (IF terminated THEN <<0>> ELSE <<>>)
ImageLen(terminated) == DescAt + DescSize + Len(Texts) + (IF terminated THEN 1 ELSE 0)

\* the values a text field takes: the four texts, the buffer length, beyond it
PtrPool(terminated) ==
    {TextAt, TextAt + 3, TextAt + 8, TextAt + 10,
     ImageLen(terminated), ImageLen(terminated) + 1}

GoodDesc ==
    [vrt_major |-> 19, vrt_minor |-> 1, file_id |-> TextAt + 8, name |-> TextAt + 8,
     func |-> TextAt + 8, func_len |-> 2, proto |-> TextAt + 8, json |-> TextAt,
     abi |-> TextAt + 8]

\* records that differ from GoodDesc in json, in func and in at most one of the
\* other text fields
Descs(terminated) ==
    LET base == {[GoodDesc EXCEPT !.json = j, !.func = fn] :
                    j \in PtrPool(terminated), fn \in PtrPool(terminated)}
        odd == {TextAt + 10, ImageLen(terminated) + 1}
    IN  base
        \cup {[d EXCEPT !.name = x] : d \in base, x \in odd}
        \cup {[d EXCEPT !.file_id = x] : d \in base, x \in odd}
        \cup {[d EXCEPT !.proto = x] : d \in base, x \in odd}
        \cup {[d EXCEPT !.abi = x] : d \in base, x \in odd}

Images == UNION {{Image(d, t) : d \in Descs(t)} : t \in BOOLEAN}

\* export tables: each entry has the name get_at gives and a section index
SymPool ==
    {[name |-> n, st_shndx |-> x] :
        n \in {Some("Vmod_std_Data"), Some("Vmod_STD_Data"), None}, x \in {1, 2}}

\* section headers: one or two after the null section
SecPool ==
    {[sh_offset |-> o, sh_entsize |-> 24] : o \in {0, 24, 48, 200}}
    \cup {[sh_offset |-> 48, sh_entsize |-> 0]}
NullSection == [sh_offset |-> 0, sh_entsize |-> 0]
SectionTables ==
    {<<NullSection, s1>> : s1 \in SecPool}
    \cup {<<NullSection, s1, [sh_offset |-> 24, sh_entsize |-> 24]>> : s1 \in SecPool}

\* the table whose only entry is the record's symbol, at index 0 of a section
\* that starts at the record
GoodElf ==
    [parse_ok |-> TRUE,
     dynsyms |-> <<[name |-> Some("Vmod_std_Data"), st_shndx |-> 1]>>,
     section_headers |-> <<NullSection, [sh_offset |-> DescAt, sh_entsize |-> 24]>>]

Elfs ==
    {[parse_ok |-> TRUE, dynsyms |-> ds, section_headers |-> sh] :
        ds \in SeqsUpTo(SymPool, MaxSyms), sh \in SectionTables}
    \cup {[parse_ok |-> FALSE, dynsyms |-> <<>>, section_headers |-> <<>>]}

ModuleNames == {"std", "STD"}

(***************************************************************************)
(* The state machines                                                      *)
(***************************************************************************)
SchemaIdle ==
    /\ json_parsed = <<>>
    /\ row_i = 0
    /\ vmod_obj = EmptyMap
    /\ result = Running

LibIdle ==
    /\ vmod_name = ""
    /\ elf = GoodElf
    /\ file = <<>>
    /\ lib_pc = "idle"
    /\ offset = 0
    /\ lib_result = Running

\* parse_vmod_json entered, line 152 reached
InitSchema ==
    /\ json_parsed \in Schemas
    /\ row_i = 0
    /\ vmod_obj = EmptyMap
    /\ result = Running
    /\ LibIdle

\* read_vmod_lib entered, the file read (line 260)
InitLib ==
    /\ vmod_name \in ModuleNames
    /\ \/ elf \in Elfs /\ file \in {Image(GoodDesc, TRUE), Image(GoodDesc, FALSE)}
       \/ elf = GoodElf /\ file \in Images
    /\ lib_pc = "start"
    /\ offset = 0
    /\ lib_result = Running
    /\ SchemaIdle

\* the loop of lines 154-225 is at a row that takes `arm`
AtRow(arm) ==
    /\ result.kind = "running"
    /\ row_i < Len(json_parsed)
    /\ RowArm(json_parsed[row_i + 1]) = arm

\* one iteration of the loop: on to the next row, or out of the function
LoopBody ==
    /\ LET step == StepRow(vmod_obj, json_parsed[row_i + 1]) IN
       IF step.kind = "ok"
       THEN /\ vmod_obj' = step.value
            /\ row_i' = row_i + 1
            /\ result' = result
       ELSE /\ result' = step
            /\ UNCHANGED <<vmod_obj, row_i>>
    /\ UNCHANGED json_parsed
    /\ UNCHANGED lib_vars

RowEmpty == AtRow("empty") /\ LoopBody
RowNonText == AtRow("nontext") /\ LoopBody
RowVmod == AtRow("$VMOD") /\ LoopBody
RowEvent == AtRow("$EVENT") /\ LoopBody
RowFunc == AtRow("$FUNC") /\ LoopBody
RowObj == AtRow("$OBJ") /\ LoopBody
RowOther == AtRow("other") /\ LoopBody

\* line 227
Return ==
    /\ result.kind = "running"
    /\ row_i = Len(json_parsed)
    /\ result' = Ok(TypeObj("", vmod_obj))
    /\ UNCHANGED <<json_parsed, row_i, vmod_obj>>
    /\ UNCHANGED lib_vars

NextSchema ==
    \/ RowEmpty
    \/ RowNonText
    \/ RowVmod
    \/ RowEvent
    \/ RowFunc
    \/ RowObj
    \/ RowOther
    \/ Return

\* the call ends inside lines 261-280
EndInLocate ==
    /\ lib_result' = Locate(vmod_name, elf)
    /\ lib_pc' = "done"
    /\ UNCHANGED <<vmod_name, elf, file, offset>>
    /\ UNCHANGED schema_vars

\* line 261: Elf::parse(&file)? returns the error
ElfParseFails ==
    /\ lib_pc = "start"
    /\ ~elf.parse_ok
    /\ EndInLocate

\* line 274: no entry has the name
SymbolNotFound ==
    /\ lib_pc = "start"
    /\ elf.parse_ok
    /\ IsNone(FindSym(elf.dynsyms, SymbolName(vmod_name)))
    /\ EndInLocate

\* line 279: expect() on a section index that is no section
SectionMissing ==
    /\ lib_pc = "start"
    /\ Locate(vmod_name, elf).kind = "panic"
    /\ EndInLocate

\* lines 261-280, giving offset
Located ==
    /\ lib_pc = "start"
    /\ Locate(vmod_name, elf).kind = "ok"
    /\ offset' = Locate(vmod_name, elf).value
    /\ lib_pc' = "located"
    /\ UNCHANGED <<vmod_name, elf, file, lib_result>>
    /\ UNCHANGED schema_vars

\* line 283: file[offset..] with offset beyond the length
SliceOutOfRange ==
    /\ lib_pc = "located"
    /\ offset > Len(file)
    /\ lib_result' \in DecodeOutcomes(file, offset)
    /\ lib_pc' = "done"
    /\ UNCHANGED <<vmod_name, elf, file, offset>>
    /\ UNCHANGED schema_vars

\* lines 284-310: the record reaches past the end of the buffer
ReadPastBuffer ==
    /\ lib_pc = "located"
    /\ offset <= Len(file)
    /\ offset + DescSize > Len(file)
    /\ lib_result' \in DecodeOutcomes(file, offset)
    /\ lib_pc' = "done"
    /\ UNCHANGED <<vmod_name, elf, file, offset>>
    /\ UNCHANGED schema_vars

\* lines 284-310: the record lies in the buffer
ReadDescriptor ==
    /\ lib_pc = "located"
    /\ offset + DescSize <= Len(file)
    /\ lib_result' \in DecodeOutcomes(file, offset)
    /\ lib_pc' = "done"
    /\ UNCHANGED <<vmod_name, elf, file, offset>>
    /\ UNCHANGED schema_vars

NextLib ==
    \/ ElfParseFails
    \/ SymbolNotFound
    \/ SectionMissing
    \/ Located
    \/ SliceOutOfRange
    \/ ReadPastBuffer
    \/ ReadDescriptor

SpecSchema == InitSchema /\ [][NextSchema]_vars
SpecLib == InitLib /\ [][NextLib]_vars

(***************************************************************************)
(* Shapes of rows, as the specification words them                         *)
(***************************************************************************)
IsText(val) == val.t = "str"
IsArray(val) == val.t = "arr"

\* a parameter entry [typeName, paramName, ...]
GoodParam(val) ==
    /\ IsArray(val)
    /\ Len(val.v) >= 2
    /\ IsText(val.v[1])
    /\ IsText(val.v[2])

\* a function row or nested method row that is missing a required element or
\* has a wrongly-shaped one
MalformedFunc(a) ==
    \/ Len(a) < 2
    \/ ~IsText(a[2])
    \/ Len(a) < 3
    \/ ~IsArray(a[3])
    \/ Len(a[3].v) < 1
    \/ ~IsArray(a[3].v[1])
    \/ \E c \in 1..Len(a[3].v[1].v) : ~IsText(a[3].v[1].v[c])
    \/ \E k \in 4..Len(a[3].v) : ~GoodParam(a[3].v[k])

\* a function row that has every element a Function is built from: nothing
\* malformed, the two reserved signature elements present, a first candidate
WellFormedFunc(a) ==
    /\ ~MalformedFunc(a)
    /\ Len(a[3].v) >= 3
    /\ Len(a[3].v[1].v) >= 1

MalformedObj(row) ==
    \/ Len(row) < 2
    \/ ~IsText(row[2])
    \/ \E k \in 7..Len(row) : ~IsArray(row[k]) \/ MalformedFunc(row[k].v)

WellFormedObj(row) ==
    /\ Len(row) >= 6
    /\ IsText(row[2])
    /\ \A k \in 7..Len(row) : IsArray(row[k]) /\ WellFormedFunc(row[k].v)

IsFuncRow(row) == Len(row) >= 1 /\ row[1] = Str("$FUNC")
IsObjRow(row) == Len(row) >= 1 /\ row[1] = Str("$OBJ")
Recognized(row) ==
    /\ Len(row) >= 1
    /\ row[1] \in {Str("$VMOD"), Str("$EVENT"), Str("$FUNC"), Str("$OBJ")}

HasMalformedRow(rows) ==
    \E i \in 1..Len(rows) :
        \/ IsFuncRow(rows[i]) /\ MalformedFunc(rows[i])
        \/ IsObjRow(rows[i]) /\ MalformedObj(rows[i])

Done == result.kind # "running"
\* the row the loop consumed last
LastRow == json_parsed[row_i]

(***************************************************************************)
(* C1 and C2: malformed rows                                               *)
(***************************************************************************)
\* C1: for a schema holding a malformed $FUNC row, $OBJ row or nested method
\* row, whatever the rows around it, parse_vmod_json returns no Object: the
\* malformed element is never silently dropped from a returned tree.
C1_MalformedRowGivesNoObject ==
    (Done /\ HasMalformedRow(json_parsed)) => result.kind # "ok"

\* C2: parse_vmod_json ends with a returned Object or a returned error, never
\* with a panic.
C2_NeverPanics == Done => result.kind \in {"ok", "err"}

(***************************************************************************)
(* C5: order of rows, last write wins                                      *)
(***************************************************************************)
\* the rows among the first n that put a name in the namespace
NamedRows(n) ==
    {i \in 1..n : IsFuncRow(json_parsed[i]) \/ IsObjRow(json_parsed[i])}
RowName(row) == row[2].v
\* the Function a $FUNC or $OBJ row produces, parsed on its own
RowFunction(row) == StepRow(EmptyMap, row).value[RowName(row)]

\* C5: rows are consumed in order and the last write wins.  While the loop
\* runs the namespace holds exactly the names of the $FUNC and $OBJ rows
\* consumed so far, each bound to the Function of the last consumed row that
\* carries it; a returned Object is the namespace after every row.
C5_LastRowWins ==
    result.kind \in {"running", "ok"} =>
        /\ DOMAIN vmod_obj = {RowName(json_parsed[i]) : i \in NamedRows(row_i)}
        /\ \A i \in NamedRows(row_i) :
               (\A j \in NamedRows(row_i) :
                    j > i => RowName(json_parsed[j]) # RowName(json_parsed[i]))
               => vmod_obj[RowName(json_parsed[i])] = RowFunction(json_parsed[i])
        /\ result.kind = "ok" =>
               /\ row_i = Len(json_parsed)
               /\ result.value.type = "Obj"
               /\ result.value.properties = vmod_obj

\* a returned Object after a $FUNC row and a $OBJ row of one name, in either
\* order, that produce different Functions
C5_Witness ==
    /\ result.kind = "ok"
    /\ \E i, j \in NamedRows(row_i) :
           /\ i < j
           /\ IsFuncRow(json_parsed[i]) # IsFuncRow(json_parsed[j])
           /\ RowName(json_parsed[i]) = RowName(json_parsed[j])
           /\ RowFunction(json_parsed[i]) # RowFunction(json_parsed[j])

(***************************************************************************)
(* C6: rows with an unrecognized tag                                       *)
(***************************************************************************)
\* rows whose tag is text other than the four recognized tags, or no text
UnrecognizedRows ==
    {<<Str("$FOO")>>, <<Str("$func"), Str("greet"), SigInt>>,
     <<Str("$OBJECT"), Num(1), Null, Null, Null, Null, Str("ping")>>,
     <<Str(""), Str("greet"), Arr(<<>>)>>,
     <<Num(1), Str("greet"), SigInt>>, <<Null>>}

InsertAt(rows, pos, row) ==
    SubSeq(rows, 1, pos) \o <<row>> \o SubSeq(rows, pos + 1, Len(rows))

\* C6: once the call has ended, the same schema with a row of an unrecognized
\* tag inserted at any position ends the same way: the same Object, the same
\* error.
C6_UnrecognizedRowNoEffect ==
    Done =>
        \A pos \in 0..Len(json_parsed) : \A row \in UnrecognizedRows :
            ParseRows(InsertAt(json_parsed, pos, row)) = result

\* a returned non-empty Object for a schema that holds an unrecognized row
C6_Witness ==
    /\ result.kind = "ok"
    /\ DOMAIN result.value.properties # {}
    /\ \E i \in 1..Len(json_parsed) :
           Len(json_parsed[i]) >= 1 /\ ~Recognized(json_parsed[i])

(***************************************************************************)
(* C7: $OBJ rows                                                           *)
(***************************************************************************)
\* the positions of the nested method rows of a $OBJ row
MethodPositions(row) == 7..Len(row)
MethodName(val) == val.v[2].v

\* what C7 says the namespace `after` holds once `row`, a well-formed $OBJ
\* row, has been consumed from the namespace `before`
ObjRowEffect(before, after, row) ==
    LET n == RowName(row) IN
    /\ DOMAIN after = DOMAIN before \cup {n}
    /\ \A k \in DOMAIN before \ {n} : after[k] = before[k]
    /\ after[n].type = "Func"
    /\ after[n].name = n
    /\ after[n].signature = None
    /\ IsSome(after[n].return)
    /\ LET obj == Unwrap(after[n].return) IN
       /\ obj.type = "Obj"
       /\ obj.name = n
       /\ obj.read_only = TRUE
       /\ DOMAIN obj.properties = {MethodName(row[k]) : k \in MethodPositions(row)}
       /\ \A k \in MethodPositions(row) :
              /\ obj.properties[MethodName(row[k])].type = "Func"
              /\ obj.properties[MethodName(row[k])].name = MethodName(row[k])
              /\ (\A l \in MethodPositions(row) :
                      l > k => MethodName(row[l]) # MethodName(row[k]))
                 => Ok(obj.properties[MethodName(row[k])]) = ParseVmodJsonFunc(row[k].v)

\* C7: the step that consumes a well-formed $OBJ row named N goes on to the
\* next row and leaves N bound to a Function named N with no signature whose
\* resolved return type is a read-only Object named N; the Object's properties
\* are the Functions of the row's elements from index 6 on, keyed by method
\* name; nothing else in the enclosing namespace changes.
C7_ObjRow ==
    [][(AtRow("$OBJ") /\ WellFormedObj(json_parsed[row_i + 1])) =>
          /\ row_i' = row_i + 1
          /\ result' = result
          /\ ObjRowEffect(vmod_obj, vmod_obj', json_parsed[row_i + 1])]_vars

\* a consumed $OBJ row with methods, whose elements 2 to 5 look like methods
C7_Witness ==
    /\ row_i >= 1
    /\ IsObjRow(LastRow)
    /\ WellFormedObj(LastRow)
    /\ Len(LastRow) >= 8
    /\ IsArray(LastRow[6])
    /\ MethodName(LastRow[7]) # MethodName(LastRow[8])

(***************************************************************************)
(* C8 and C9: the Function of a function row                               *)
(***************************************************************************)
\* the text "<typeName> <paramName>" of the entries from position k on,
\* separated by ", "
RECURSIVE ParamList(_, _)
ParamList(sig, k) ==
    IF k > Len(sig) THEN ""
    ELSE sig[k].v[1].v \o " " \o sig[k].v[2].v
         \o (IF k < Len(sig) THEN ", " ELSE "") \o ParamList(sig, k + 1)

ExpectedSignature(a) == "(" \o ParamList(a[3].v, 4) \o ")"

\* the Function the loop stored for the $FUNC row it consumed last
LastFunction == vmod_obj[RowName(LastRow)]

\* the methods of the $OBJ row the loop consumed last, and the positions of
\* those no later method of the row overwrites
LastMethods == Unwrap(vmod_obj[RowName(LastRow)].return).properties
KeptMethods ==
    {k \in MethodPositions(LastRow) :
        \A l \in MethodPositions(LastRow) :
            l > k => MethodName(LastRow[l]) # MethodName(LastRow[k])}

\* the call ended at a row that is a well-formed $FUNC row
FailedAtWellFormedFunc ==
    /\ result.kind \in {"err", "panic"}
    /\ IsFuncRow(json_parsed[row_i + 1])
    /\ WellFormedFunc(json_parsed[row_i + 1])

\* C8: a well-formed $FUNC row never ends the call, and the Function stored
\* for it has the signature text "(" ++ the "<typeName> <paramName>" of the
\* signature elements from index 3 on, in order, joined by ", " ++ ")"; so
\* has the Function stored for each method row of a well-formed $OBJ row.
C8_SignatureText ==
    /\ ~FailedAtWellFormedFunc
    /\ (row_i >= 1 /\ IsFuncRow(LastRow) /\ WellFormedFunc(LastRow)) =>
           LastFunction.signature = Some(ExpectedSignature(LastRow))
    /\ (row_i >= 1 /\ IsObjRow(LastRow) /\ WellFormedObj(LastRow)) =>
           \A k \in KeptMethods :
               LastMethods[MethodName(LastRow[k])].signature
                   = Some(ExpectedSignature(LastRow[k].v))

\* a consumed $FUNC row with two parameters and parameter-shaped elements 1, 2
C8_Witness ==
    /\ row_i >= 1
    /\ IsFuncRow(LastRow)
    /\ WellFormedFunc(LastRow)
    /\ Len(LastRow[3].v) = 5
    /\ IsArray(LastRow[3].v[3])
    /\ LastFunction.signature = Some("(STRING name, INT count)")

\* the primitive table
ExpectedReturn(first) ==
    IF first = "BACKEND" THEN Some(TypeBackend)
    ELSE IF first = "STRING" THEN Some(TypeString)
    ELSE IF first \in {"REAL", "INT"} THEN Some(TypeNumber)
    ELSE IF first = "BOOL" THEN Some(TypeBool)
    ELSE None

\* the row with its return candidates after the first replaced by rest
WithLaterCandidates(a, rest) ==
    [a EXCEPT ![3] = Arr([a[3].v EXCEPT ![1] = Arr(<<a[3].v[1].v[1]>> \o rest)])]

LaterCandidates ==
    {<<>>, <<Str("INT")>>, <<Str("STRING")>>, <<Str("VOID"), Str("BACKEND")>>}

\* C9: the Function stored for a well-formed $FUNC row has the resolved return
\* type the primitive table gives for candidate 0, and the same row with other
\* candidates after the first parses to the same Function; so has the
\* Function stored for each method row of a well-formed $OBJ row.
C9_FirstCandidateOnly ==
    /\ (row_i >= 1 /\ IsFuncRow(LastRow) /\ WellFormedFunc(LastRow)) =>
           /\ LastFunction.return = ExpectedReturn(LastRow[3].v[1].v[1].v)
           /\ \A rest \in LaterCandidates :
                  ParseVmodJsonFunc(WithLaterCandidates(LastRow, rest)) = Ok(LastFunction)
    /\ (row_i >= 1 /\ IsObjRow(LastRow) /\ WellFormedObj(LastRow)) =>
           \A k \in KeptMethods :
               /\ LastMethods[MethodName(LastRow[k])].return
                      = ExpectedReturn(LastRow[k].v[3].v[1].v[1].v)
               /\ \A rest \in LaterCandidates :
                      ParseVmodJsonFunc(WithLaterCandidates(LastRow[k].v, rest))
                          = Ok(LastMethods[MethodName(LastRow[k])])

\* a consumed $FUNC row with two candidates that the table maps differently
C9_Witness ==
    /\ row_i >= 1
    /\ IsFuncRow(LastRow)
    /\ WellFormedFunc(LastRow)
    /\ Len(LastRow[3].v[1].v) = 2
    /\ ExpectedReturn(LastRow[3].v[1].v[1].v) # ExpectedReturn(LastRow[3].v[1].v[2].v)
    /\ LastFunction.return = Some(TypeNumber)

(***************************************************************************)
(* C4: the offset of the record                                            *)
(***************************************************************************)
\* the one-based positions of the export entries named Vmod_<vmod_name>_Data
Matches ==
    {i \in 1..Len(elf.dynsyms) :
        elf.dynsyms[i].name = Some("Vmod_" \o vmod_name \o "_Data")}
FirstMatch == CHOOSE i \in Matches : \A j \in Matches : i <= j
\* the first match references a section of the image
MatchHasSection == elf.dynsyms[FirstMatch].st_shndx < Len(elf.section_headers)
MatchSection == elf.section_headers[elf.dynsyms[FirstMatch].st_shndx + 1]

\* C4: when an export entry is named exactly Vmod_<moduleName>_Data, the offset
\* located is section.fileOffset + matchIndex * section.entrySize for the first
\* such entry's zero-based index in the whole table and the section that entry
\* references; when none is, the call ends with the symbol-not-found error and
\* no offset is computed.
C4_OffsetOfFirstMatch ==
    /\ lib_pc = "located" => (elf.parse_ok /\ Matches # {} /\ MatchHasSection)
    /\ (lib_pc \in {"located", "done"} /\ elf.parse_ok /\ Matches # {}
            /\ MatchHasSection)
         => offset = MatchSection.sh_offset + (FirstMatch - 1) * MatchSection.sh_entsize
    /\ (lib_pc \in {"located", "done"} /\ elf.parse_ok /\ Matches = {})
         => /\ lib_pc = "done"
            /\ lib_result = Err("Could not find vmod data symbol")
            /\ offset = 0

\* an offset located for a table with two matching entries in different
\* sections, the first of them not the first entry of the table
C4_Witness ==
    /\ lib_pc = "located"
    /\ Cardinality(Matches) >= 2
    /\ FirstMatch > 1
    /\ \E j \in Matches : elf.dynsyms[j].st_shndx # elf.dynsyms[FirstMatch].st_shndx
    /\ offset = MatchSection.sh_offset + MatchSection.sh_entsize
    /\ offset > 0

(***************************************************************************)
(* C3: out-of-range references                                             *)
(***************************************************************************)
\* C3: every out-of-range reference met while reading an image (a section
\* index that is no section, a record that does not fit in the buffer, a text
\* offset at or beyond the length, a text with no terminator) ends the call
\* with a returned error value, never with a panic, a crash or a read outside
\* the buffer.
C3_OutOfRangeIsError ==
    lib_pc = "done" => lib_result.kind \in {"ok", "err"}

(***************************************************************************)
(* C10: the function-table field                                           *)
(***************************************************************************)
\* the image with the function-table field of the record at `at` set to x
WithFunc(f, at, x) ==
    SubSeq(f, 1, at + OffFunc) \o EncodeLE(x, PtrSize)
    \o SubSeq(f, at + OffFunc + PtrSize + 1, Len(f))

\* two ways of ending that differ at most in the func text
SameButFunc(a, b) ==
    /\ a.kind = b.kind
    /\ a.msg = b.msg
    /\ a.kind = "ok" => [a.value EXCEPT !.func = <<>>] = [b.value EXCEPT !.func = <<>>]

\* C10: the function-table offset is never dereferenced: once an image whose
\* record lies in the buffer has been read, the same image with any other
\* value in that field reads the same way, with the same value in every other
\* field.
C10_FuncFieldNotRead ==
    (lib_pc = "done" /\ Locate(vmod_name, elf).kind = "ok"
         /\ offset + DescSize <= Len(file))
    => \A x \in PtrPool(TRUE) \cup PtrPool(FALSE) :
           \A other \in DecodeOutcomes(WithFunc(file, offset, x), offset) :
               SameButFunc(other, lib_result)

====
